---- MODULE Spec2Model ----
(***************************************************************************)
(* A model of src/push-prices.js: the Node script pushPrices, and the      *)
(* spreadsheet script built around buildProposals_ (catalog index, report  *)
(* reader, price policy, proposal builder, push client).                   *)
(*                                                                         *)
(* Numbers.  JavaScript numbers are modelled in fixed point: an integer h  *)
(* stands for h/2, so that half-dollar prices exist and Math.round is not  *)
(* the identity.  Dollars(x) is the whole number x.                        *)
(*                                                                         *)
(* Strings.  TLA+ strings are atomic, so the string primitives the code    *)
(* uses (trim, toLowerCase, includes, the regular expressions) are         *)
(* tabulated on the sample strings the model draws its sheets from.        *)
(***************************************************************************)
EXTENDS Integers, Sequences, FiniteSets, TLC

VARIABLES
  entry,        \* the entry point that is running
  pc,           \* its position
  pin,          \* computeNewPrice_: the arguments of the call
  pout,         \* computeNewPrice_: the value returned
  catalog,      \* the Reusely_Catalog sheet
  idx,          \* buildCatalogIndex_: idx
  priceLookup,  \* buildCatalogIndex_: priceLookup
  probe,        \* the (model, carrier, storage) looked up
  found,        \* idx[keyStrict] || idx[keyLoose] for the probe
  doApply,      \* buildProposals_: doApply
  carriersFilter, \* buildProposals_: carriersFilter (empty: every carrier)
  baseUrl,      \* the document property REUSELY_BASE_URL
  tabKind,      \* per carrier, the report tab the spreadsheet holds
  log,          \* the data rows of the Proposals sheet
  carrierI,     \* buildProposals_: the position in carriersToRun
  hasAllGb,     \* buildProposals_: hasAllGb of the carrier being processed
  records,      \* buildProposals_: records of the carrier being processed
  recI,         \* buildProposals_: the next record of records
  out,          \* buildProposals_: out
  calls,        \* the calls of putPrice_ (pushPrices: of fetch), with the row of each
  requests,     \* the pricing-update requests sent, with the row and the response
  sheetRows,    \* pushPrices: rows (without the header)
  rowI,         \* pushPrices: i
  outcome,      \* what the run reports to the host: "success", or the error raised
  exported,     \* exportCsvForReuselyChangedOnly: the data rows of the CSV of each run
  queue,        \* the document property REUSELY_SEQ_QUEUE
  applyFlag,    \* the document property REUSELY_SEQ_APPLY
  triggers,     \* the pending time-based triggers of processNextCarrier_
  processed     \* the carriers that processNextCarrier_ has passed to buildProposals_

policyVars == <<pin, pout>>
catVars == <<catalog, idx, priceLookup, probe, found>>
runVars == <<doApply, carriersFilter, baseUrl, tabKind>>
buildVars == <<carrierI, hasAllGb, records, recI, out, calls>>
pushVars == <<sheetRows, rowI>>
exportVars == <<exported>>
seqVars == <<queue, applyFlag, triggers, processed>>
vars == <<entry, pc, pin, pout, catalog, idx, priceLookup, probe, found, doApply,
          carriersFilter, baseUrl, tabKind, log, carrierI, hasAllGb, records, recI, out,
          calls, requests, sheetRows, rowI, outcome, exported, queue, applyFlag,
          triggers, processed>>

-----------------------------------------------------------------------------
(* JavaScript values *)

Null == [k |-> "null", s |-> "", n |-> 0]
Str(x) == [k |-> "str", s |-> x, n |-> 0]
Num(h) == [k |-> "num", s |-> "", n |-> h]
Dollars(x) == 2 * x

Max(a, b) == IF a >= b THEN a ELSE b

\* The sample strings that Number() parses, with their values.
NumericString ==
  [s \in {"", " ", "0", "1", "2", "101", "102", "103", "104", "105", "12.5", "665", "700"} |->
     CASE s = "" -> 0
       [] s = " " -> 0
       [] s = "0" -> 0
       [] s = "1" -> Dollars(1)
       [] s = "2" -> Dollars(2)
       [] s = "101" -> Dollars(101)
       [] s = "102" -> Dollars(102)
       [] s = "103" -> Dollars(103)
       [] s = "104" -> Dollars(104)
       [] s = "105" -> Dollars(105)
       [] s = "12.5" -> Dollars(12) + 1
       [] s = "665" -> Dollars(665)
       [] s = "700" -> Dollars(700)]

\* Number(v): [nan |-> TRUE] is NaN.
JsNumber(v) ==
  CASE v.k = "num" -> [nan |-> FALSE, n |-> v.n]
    [] v.k = "null" -> [nan |-> FALSE, n |-> 0]
    [] v.k = "str" -> IF v.s \in DOMAIN NumericString
                      THEN [nan |-> FALSE, n |-> NumericString[v.s]]
                      ELSE [nan |-> TRUE, n |-> 0]

\* !!v
Truthy(v) ==
  CASE v.k = "num" -> v.n # 0
    [] v.k = "null" -> FALSE
    [] v.k = "str" -> v.s # ""

\* Math.round(x) = floor(x + 1/2), on halves.
MathRound(h) == 2 * ((h + 1) \div 2)

-----------------------------------------------------------------------------
(* CONFIG *)

CONDITIONS == <<"New", "Mint", "Good", "Fair", "Broken">>
ConditionSet == {CONDITIONS[i] : i \in DOMAIN CONDITIONS}

PRICE_BUMP_ABOVE_SECOND == 1
TRIM_LEAD_THRESHOLD == 5
NEW_UNDERCUT_LEADER_BY == 20

-----------------------------------------------------------------------------
(* PRICE LOGIC *)

\* computeNewPrice_ without the rule for New
computeNewPrice_BumpOnNew(current, rank, delta, condition) ==
  IF current = Null \/ current = Str("") \/ JsNumber(current).nan
  THEN [proposed |-> Str(""), reason |-> "NO CURRENT PRICE"]
  ELSE
    LET cur == JsNumber(current).n
        r == JsNumber(rank)
        d == JsNumber(delta)
    IN IF rank = Str("") \/ rank = Null \/ r.nan \/ delta = Str("") \/ delta = Null \/ d.nan
       THEN [proposed |-> Str(""), reason |-> "MISSING RANK/Δ"]
       ELSE IF r.n # Dollars(1)
       THEN [proposed |-> Num(cur + d.n + Dollars(PRICE_BUMP_ABOVE_SECOND)), reason |-> "CHASE #1"]
       ELSE IF r.n = Dollars(1) /\ (0 - d.n) > Dollars(TRIM_LEAD_THRESHOLD)
       THEN [proposed |-> Num(cur + d.n + Dollars(PRICE_BUMP_ABOVE_SECOND)), reason |-> "TRIM LEAD"]
       ELSE [proposed |-> Num(cur), reason |-> "NO CHANGE"]

\* computeNewPrice_ testing rank and delta before the current price
computeNewPrice_RankFirst(current, rank, delta, condition) ==
  LET r == JsNumber(rank)
      d == JsNumber(delta)
  IN IF rank = Str("") \/ rank = Null \/ r.nan \/ delta = Str("") \/ delta = Null \/ d.nan
     THEN [proposed |-> Str(""), reason |-> "MISSING RANK/Δ"]
     ELSE IF current = Null \/ current = Str("") \/ JsNumber(current).nan
     THEN [proposed |-> Str(""), reason |-> "NO CURRENT PRICE"]
     ELSE
       LET cur == JsNumber(current).n
       IN IF condition = "New" /\ NEW_UNDERCUT_LEADER_BY > 0 /\ r.n # Dollars(1)
          THEN LET topPrice == cur + d.n
                   target == Max(0, topPrice - Dollars(NEW_UNDERCUT_LEADER_BY))
               IN [proposed |-> Num(target),
                   reason |-> "NEW: TOP-$" \o ToString(NEW_UNDERCUT_LEADER_BY)]
          ELSE IF r.n # Dollars(1)
          THEN [proposed |-> Num(cur + d.n + Dollars(PRICE_BUMP_ABOVE_SECOND)),
                reason |-> "CHASE #1"]
          ELSE IF r.n = Dollars(1) /\ (0 - d.n) > Dollars(TRIM_LEAD_THRESHOLD)
          THEN [proposed |-> Num(cur + d.n + Dollars(PRICE_BUMP_ABOVE_SECOND)),
                reason |-> "TRIM LEAD"]
          ELSE [proposed |-> Num(cur), reason |-> "NO CHANGE"]

\* computeNewPrice_ trimming a lead of exactly the threshold
computeNewPrice_TrimAtThreshold(current, rank, delta, condition) ==
  IF current = Null \/ current = Str("") \/ JsNumber(current).nan
  THEN [proposed |-> Str(""), reason |-> "NO CURRENT PRICE"]
  ELSE
    LET cur == JsNumber(current).n
        r == JsNumber(rank)
        d == JsNumber(delta)
    IN IF rank = Str("") \/ rank = Null \/ r.nan \/ delta = Str("") \/ delta = Null \/ d.nan
       THEN [proposed |-> Str(""), reason |-> "MISSING RANK/Δ"]
       ELSE IF condition = "New" /\ NEW_UNDERCUT_LEADER_BY > 0 /\ r.n # Dollars(1)
       THEN LET topPrice == cur + d.n
                target == Max(0, topPrice - Dollars(NEW_UNDERCUT_LEADER_BY))
            IN [proposed |-> Num(target),
                reason |-> "NEW: TOP-$" \o ToString(NEW_UNDERCUT_LEADER_BY)]
       ELSE IF r.n # Dollars(1)
       THEN [proposed |-> Num(cur + d.n + Dollars(PRICE_BUMP_ABOVE_SECOND)), reason |-> "CHASE #1"]
       ELSE IF r.n = Dollars(1) /\ (0 - d.n) >= Dollars(TRIM_LEAD_THRESHOLD)
       THEN [proposed |-> Num(cur + d.n + Dollars(PRICE_BUMP_ABOVE_SECOND)), reason |-> "TRIM LEAD"]
       ELSE [proposed |-> Num(cur), reason |-> "NO CHANGE"]

computeNewPrice_(current, rank, delta, condition) ==
  IF current = Null \/ current = Str("") \/ JsNumber(current).nan
  THEN [proposed |-> Str(""), reason |-> "NO CURRENT PRICE"]
  ELSE
    LET cur == JsNumber(current).n
        r == JsNumber(rank)
        d == JsNumber(delta)
    IN IF rank = Str("") \/ rank = Null \/ r.nan \/ delta = Str("") \/ delta = Null \/ d.nan
       THEN [proposed |-> Str(""), reason |-> "MISSING RANK/Δ"]
       ELSE IF condition = "New" /\ NEW_UNDERCUT_LEADER_BY > 0 /\ r.n # Dollars(1)
       THEN LET topPrice == cur + d.n
                target == Max(0, topPrice - Dollars(NEW_UNDERCUT_LEADER_BY))
            IN [proposed |-> Num(target),
                reason |-> "NEW: TOP-$" \o ToString(NEW_UNDERCUT_LEADER_BY)]
       ELSE IF r.n # Dollars(1)
       THEN [proposed |-> Num(cur + d.n + Dollars(PRICE_BUMP_ABOVE_SECOND)), reason |-> "CHASE #1"]
       ELSE IF r.n = Dollars(1) /\ (0 - d.n) > Dollars(TRIM_LEAD_THRESHOLD)
       THEN [proposed |-> Num(cur + d.n + Dollars(PRICE_BUMP_ABOVE_SECOND)), reason |-> "TRIM LEAD"]
       ELSE [proposed |-> Num(cur), reason |-> "NO CHANGE"]

-----------------------------------------------------------------------------
(* UTIL: the string primitives, tabulated on the sample strings *)

\* String(s||"").trim()
_norm(s) == IF s = " " THEN "" ELSE s

\* s.toLowerCase()
toLowerCase(s) ==
  CASE s = "Unlocked" -> "unlocked"
    [] s = "AT&T" -> "at&t"
    [] s = "ATT" -> "att"
    [] s = "T-Mobile" -> "t-mobile"
    [] s = "Verizon" -> "verizon"
    [] s = "Sprint" -> "sprint"
    [] OTHER -> s

\* s.includes(sub), for the lower-cased sample carriers
includes(s, sub) ==
  <<s, sub>> \in {<<"unlocked", "unlocked">>, <<"at&t", "at&t">>, <<"att", "att">>,
                 <<"t-mobile", "t-mobile">>, <<"verizon", "verizon">>}

_normalizeCarrier(c0) ==
  LET c == toLowerCase(c0)
  IN IF includes(c, "unlocked") THEN "Unlocked"
     ELSE IF includes(c, "at&t") \/ includes(c, "att") THEN "AT&T"
     ELSE IF includes(c, "t-mobile") \/ includes(c, "tmobile") THEN "T-Mobile"
     ELSE IF includes(c, "verizon") THEN "Verizon"
     ELSE c

\* Upper-case, drop white space, then the first <digits>GB if there is one.
_gbNormalize(s) ==
  CASE s = "128 gb" -> "128GB"
    [] s = "256 gb" -> "256GB"
    [] s = "n/a" -> "N/A"
    [] s = " " -> ""
    [] OTHER -> s

\* The four SE rewrites, applied in turn.
_cleanCatalogModelName_(s) ==
  CASE s = "iPhone SE 2" -> "iPhone SE (2020)"
    [] s = "iPhone SE (2nd Gen)" -> "iPhone SE (2020)"
    [] s = "iPhone SE 3" -> "iPhone SE (2022)"
    [] s = " " -> ""
    [] OTHER -> s

\* product_name with the size, the network, the carrier tokens and every
\* <digits>GB removed, white space collapsed, then the SE rewrite.  On the sample
\* names every removed word is a carrier token or a <digits>GB, so the result
\* does not depend on networkName and sizeName.
_extractModelFromCatalog_(productName, networkName, sizeName) ==
  _cleanCatalogModelName_(
    CASE productName \in {"iPhone 12 128GB Unlocked", "iPhone 12 Unlocked",
                          "iPhone 12 256GB Unlocked", "iPhone 12 64GB AT&T", "iPhone 12"}
           -> "iPhone 12"
      [] productName \in {"iPhone SE 2 64GB AT&T", "iPhone SE 2"} -> "iPhone SE 2"
      [] productName \in {"128GB Unlocked", ""} -> ""
      [] OTHER -> productName)

-----------------------------------------------------------------------------
(* CATALOG INDEX *)

REQUIRED_COLUMNS == {"product_id", "product_name", "network_name", "size_name"}

\* PRICE_COLS_IN_CATALOG
PRICE_COLS_IN_CATALOG(cond) ==
  CASE cond = "New" -> "Brand New"
    [] cond = "Mint" -> "Flawless"
    [] OTHER -> cond

EmptyMap == [x \in {} |-> Null]
Put(m, key, v) == [x \in DOMAIN m \cup {key} |-> IF x = key THEN v ELSE m[x]]

\* One catalog row's entry, or "skipped" when the row is discarded.
CatalogRowEntry(r) ==
  LET pid == _norm(r.product_id)
      name == _norm(r.product_name)
      net == _normalizeCarrier(_norm(r.network_name))
      size == _gbNormalize(_norm(r.size_name))
      modelOnly == _extractModelFromCatalog_(name, net, size)
  IN IF pid = "" \/ name = "" \/ net = "" \/ modelOnly = ""
     THEN [skipped |-> TRUE, product_id |-> "", model |-> "", network_name |-> "",
           size_name |-> ""]
     ELSE [skipped |-> FALSE, product_id |-> pid, model |-> modelOnly,
           network_name |-> net, size_name |-> size]

Entry(e) ==
  [product_id |-> e.product_id, model |-> e.model, network_name |-> e.network_name,
   size_name |-> e.size_name]

\* priceLookup[keyStrict][cond] = Number(r[ix]) || 0, for the price columns present
RowPrices(header, r) ==
  [cond \in {c \in ConditionSet : PRICE_COLS_IN_CATALOG(c) \in header} |->
     LET v == JsNumber(r.price[cond]) IN IF v.nan THEN 0 ELSE v.n]

\* The body of rows.forEach: the strict key is always assigned, the loose key only
\* when idx has none.
IndexRow(acc, header, r) ==
  LET e == CatalogRowEntry(r)
      keyStrict == <<e.model, e.network_name, e.size_name>>
      keyLoose == <<e.model, e.network_name, "">>
      idx1 == Put(acc.idx, keyStrict, Entry(e))
      idx2 == IF keyLoose \in DOMAIN idx1 THEN idx1 ELSE Put(idx1, keyLoose, Entry(e))
      havePriceCols == \E c \in ConditionSet : PRICE_COLS_IN_CATALOG(c) \in header
  IN IF e.skipped THEN acc
     ELSE [idx |-> idx2,
           priceLookup |-> IF havePriceCols
                           THEN Put(acc.priceLookup, keyStrict, RowPrices(header, r))
                           ELSE acc.priceLookup]

RECURSIVE IndexRows(_, _, _, _)
IndexRows(acc, header, rows, i) ==
  IF i > Len(rows) THEN acc
  ELSE IndexRows(IndexRow(acc, header, rows[i]), header, rows, i + 1)

\* buildCatalogIndex_: the error thrown when the sheet is missing, has no data row
\* or lacks a required column ("" when none is); otherwise { idx, priceLookup }.
buildCatalogIndex_(sheet) ==
  IF ~sheet.present
  THEN [error |-> "Missing sheet: Reusely_Catalog", idx |-> EmptyMap, priceLookup |-> EmptyMap]
  ELSE IF Len(sheet.rows) < 1
  THEN [error |-> "Reusely_Catalog has no data.", idx |-> EmptyMap, priceLookup |-> EmptyMap]
  ELSE IF ~(REQUIRED_COLUMNS \subseteq sheet.header)
  THEN [error |-> "Reusely_Catalog missing required column", idx |-> EmptyMap,
        priceLookup |-> EmptyMap]
  ELSE LET acc == IndexRows([idx |-> EmptyMap, priceLookup |-> EmptyMap],
                            sheet.header, sheet.rows, 1)
       IN [error |-> "", idx |-> acc.idx, priceLookup |-> acc.priceLookup]

NoCat == [product_id |-> "", model |-> "", network_name |-> "", size_name |-> ""]

\* buildProposals_: const cat = idx[keyStrict] || idx[keyLoose]
LookupCatalog(index, model, carrierNorm, storage) ==
  LET modelKey == _cleanCatalogModelName_(model)
      keyStrict == <<modelKey, carrierNorm, storage>>
      keyLoose == <<modelKey, carrierNorm, "">>
  IN IF keyStrict \in DOMAIN index THEN index[keyStrict]
     ELSE IF keyLoose \in DOMAIN index THEN index[keyLoose]
     ELSE NoCat


-----------------------------------------------------------------------------
(* REPORT READING *)

REPORT_TABS ==
  << [carrier |-> "Unlocked", tabAll |-> "Report_Unlocked_AllGB", tabLegacy |-> "Report_Unlocked"],
     [carrier |-> "AT&T", tabAll |-> "Report_ATT_AllGB", tabLegacy |-> "Report_ATT"],
     [carrier |-> "T-Mobile", tabAll |-> "Report_TMobile_AllGB", tabLegacy |-> "Report_TMobile"],
     [carrier |-> "Verizon", tabAll |-> "Report_Verizon_AllGB", tabLegacy |-> "Report_Verizon"] >>
Carriers == {REPORT_TABS[i].carrier : i \in DOMAIN REPORT_TABS}

COL_MODEL == "Model"
COL_STORAGE == "Storage"

\* _sheetByName(name) is not null, from the tabs the spreadsheet holds
SheetExists(kinds, name) ==
  \E i \in DOMAIN REPORT_TABS :
     \/ name = REPORT_TABS[i].tabAll /\ kinds[REPORT_TABS[i].carrier] \in {"AllGB", "Both"}
     \/ name = REPORT_TABS[i].tabLegacy /\ kinds[REPORT_TABS[i].carrier] \in {"Legacy", "Both"}

\* "" stands for null
pickReportTab_(kinds, pref, fallback) ==
  IF SheetExists(kinds, pref) THEN pref
  ELSE IF SheetExists(kinds, fallback) THEN fallback ELSE ""

\* rank = (rankRaw===""||rankRaw==null) ? "" : rankRaw
RawOrEmpty(cell) == IF cell = Str("") \/ cell = Null THEN Str("") ELSE cell

\* The records of one data row: none when Model is empty, else one per condition
\* whose Rank and delta columns are both in the header.
RowRecords(header, row) ==
  LET model == _norm(row.model)
      storage == IF COL_STORAGE \in header THEN _gbNormalize(_norm(row.storage)) ELSE ""
      conds == SelectSeq(CONDITIONS,
                 LAMBDA c : (c \o " Rank") \in header /\ (c \o " Δ") \in header)
  IN IF model = "" THEN <<>>
     ELSE [i \in 1..Len(conds) |->
             [model |-> model, storage |-> storage, condition |-> conds[i],
              rank |-> RawOrEmpty(row.rank[conds[i]]),
              delta |-> RawOrEmpty(row.delta[conds[i]])]]

RECURSIVE ReadRows(_, _, _)
ReadRows(header, rows, i) ==
  IF i > Len(rows) THEN <<>>
  ELSE RowRecords(header, rows[i]) \o ReadRows(header, rows, i + 1)

\* readReportRows_ of an existing tab: [] when the sheet has fewer than two rows,
\* an error when the header row has no Model column.
readReportRows_(sheet) ==
  IF sheet.short THEN [error |-> "", records |-> <<>>]
  ELSE IF COL_MODEL \notin sheet.header
  THEN [error |-> "report tab missing column: Model", records |-> <<>>]
  ELSE [error |-> "", records |-> ReadRows(sheet.header, sheet.rows, 1)]

-----------------------------------------------------------------------------
(* CURRENT PRICE SOURCE *)

\* null, or the number held for the condition under the strict key
getCurrentPriceFromCatalog_(lookup, model, carrier, storage, condition) ==
  LET key == <<_cleanCatalogModelName_(model), carrier, storage>>
  IN IF key \notin DOMAIN lookup THEN Null
     ELSE IF condition \notin DOMAIN lookup[key] THEN Null
     ELSE Num(lookup[key][condition])

\* The pricing list a successful GET returns.
ApiPricing ==
  << [name |-> "Brand New", price |-> Num(Dollars(700))],
     [name |-> "Flawless", price |-> Num(Dollars(665))],
     [name |-> "Good", price |-> Num(Dollars(500))],
     [name |-> "Fair", price |-> Str("n/a")] >>

\* "brand new" -> "New", "flawless" -> "Flawless", any other name unchanged
ApiNameNorm(n) ==
  CASE n = "Brand New" -> "New"
    [] OTHER -> n

RECURSIVE ApiPriceMap(_, _, _)
ApiPriceMap(list, i, acc) ==
  IF i > Len(list) THEN acc
  ELSE LET v == JsNumber(list[i].price)
       IN ApiPriceMap(list, i + 1,
                      IF v.nan THEN acc ELSE Put(acc, ApiNameNorm(list[i].name), v.n))

\* getCurrentPriceViaApi_: null (ok = FALSE) without a base URL, on a response that
\* is not 200 and on an exception; otherwise the map of the prices returned.
getCurrentPriceViaApi_(base, productId, resp) ==
  IF base = "" \/ resp # "200" THEN [ok |-> FALSE, prices |-> EmptyMap]
  ELSE [ok |-> TRUE, prices |-> ApiPriceMap(ApiPricing, 1, EmptyMap)]

\* const map = { "New":"New","Flawless":"Mint","Good":"Good","Fair":"Fair","Broken":"Broken" }
ApiKeyToCondition(k) ==
  CASE k = "Flawless" -> "Mint"
    [] OTHER -> k

\* for (const k in map) if (map[k]===cond && apiPrices[k]!=null) currentPrice = ...
CurrentPriceFromApi(api, cond) ==
  IF ~api.ok THEN Null
  ELSE LET ks == {k \in DOMAIN api.prices :
                    k \in {"New", "Flawless", "Good", "Fair", "Broken"}
                    /\ ApiKeyToCondition(k) = cond}
       IN IF ks = {} THEN Null ELSE Num(api.prices[CHOOSE k \in ks : TRUE])

-----------------------------------------------------------------------------
(* PUT PRICE *)

\* condMap[condition] || condition
condMap(condition) ==
  CASE condition = "New" -> "Brand New"
    [] condition = "Mint" -> "Flawless"
    [] OTHER -> condition

PUT_PATH == "/v2/admin/pricing"

\* putPrice_ when the exception of fetch leaves the function
putPrice_NoCatch(base, productId, condition, price, resp) ==
  IF base = "" THEN [ok |-> FALSE, note |-> "no-endpoint", sent |-> <<>>, thrown |-> FALSE]
  ELSE LET url == base \o PUT_PATH
           payload == [product_id |-> JsNumber(Str(productId)).n,
                       conditions |-> << [name |-> condMap(condition),
                                          price |-> MathRound(price)] >>]
       IN CASE resp = "200" ->
                 [ok |-> TRUE, note |-> "", sent |-> <<payload>>, thrown |-> FALSE]
            [] resp = "500" ->
                 [ok |-> FALSE, note |-> "500 Internal Server Error @ " \o url,
                  sent |-> <<payload>>, thrown |-> FALSE]
            [] OTHER ->
                 [ok |-> FALSE, note |-> "Timeout", sent |-> <<payload>>, thrown |-> TRUE]

\* putPrice_ under the response resp ("200", "500", or "throw" for an exception of
\* UrlFetchApp.fetch): the result returned, the requests sent, and whether an
\* exception leaves the function (the try block spans its whole body).
putPrice_(base, productId, condition, price, resp) ==
  IF base = "" THEN [ok |-> FALSE, note |-> "no-endpoint", sent |-> <<>>, thrown |-> FALSE]
  ELSE LET url == base \o PUT_PATH
           payload == [product_id |-> JsNumber(Str(productId)).n,
                       conditions |-> << [name |-> condMap(condition),
                                          price |-> MathRound(price)] >>]
       IN CASE resp = "200" ->
                 [ok |-> TRUE, note |-> "", sent |-> <<payload>>, thrown |-> FALSE]
            [] resp = "500" ->
                 [ok |-> FALSE, note |-> "500 Internal Server Error @ " \o url,
                  sent |-> <<payload>>, thrown |-> FALSE]
            [] OTHER ->
                 [ok |-> FALSE, note |-> "Timeout", sent |-> <<payload>>, thrown |-> FALSE]

-----------------------------------------------------------------------------
(* The sheets the runs are drawn from *)

MaxCatalogRows == 3
MaxReportRows == 1
MaxSheetRows == 2

SeqsUpTo(S, n) == UNION {[1..m -> S] : m \in 0..n}

Prices(new, mint, good, fair, broken) ==
  [c \in ConditionSet |->
     CASE c = "New" -> new [] c = "Mint" -> mint [] c = "Good" -> good
       [] c = "Fair" -> fair [] OTHER -> broken]

CatalogRow(pid, name, net, size, price) ==
  [product_id |-> pid, product_name |-> name, network_name |-> net, size_name |-> size,
   price |-> price]

Row128 ==
  CatalogRow("101", "iPhone 12 128GB Unlocked", "Unlocked", "128GB",
             Prices(Num(Dollars(700)), Str("665"), Num(Dollars(500) + 1), Str(""), Str("n/a")))
RowNoSize ==
  CatalogRow("102", "iPhone 12 Unlocked", "Unlocked", "",
             Prices(Num(Dollars(700)), Num(Dollars(665)), Num(Dollars(500)), Num(0), Num(0)))
Row256 ==
  CatalogRow("103", "iPhone 12 256GB Unlocked", "Unlocked", "256 gb",
             Prices(Num(Dollars(10) + 1), Num(Dollars(10)), Num(Dollars(10)), Num(0), Num(0)))
Row128Again ==
  CatalogRow("104", "iPhone 12 128GB Unlocked", "Unlocked", "128GB",
             Prices(Num(Dollars(700)), Num(Dollars(665)), Num(Dollars(500)), Num(0), Num(0)))
RowNoId ==
  CatalogRow(" ", "iPhone 12 128GB Unlocked", "Unlocked", "128GB",
             Prices(Num(0), Num(0), Num(0), Num(0), Num(0)))
RowAtt ==
  CatalogRow("105", "iPhone 12 64GB AT&T", "ATT", "64GB",
             Prices(Num(Dollars(700)), Num(Dollars(665)), Num(Dollars(500)), Num(0), Num(0)))

CatalogRowSamples == {Row128, RowNoSize, Row256, Row128Again, RowNoId, RowAtt}

PriceColumns == {PRICE_COLS_IN_CATALOG(c) : c \in ConditionSet}
CatalogHeaders ==
  {REQUIRED_COLUMNS \cup PriceColumns, REQUIRED_COLUMNS,
   REQUIRED_COLUMNS \ {"size_name"}}

NoSheet == [present |-> FALSE, header |-> {}, rows |-> <<>>]

\* The catalogs the proposal builder runs on.
BuilderCatalogs ==
  { [present |-> TRUE, header |-> REQUIRED_COLUMNS \cup PriceColumns,
     rows |-> <<Row128, Row256, RowNoSize, RowAtt>>],
    [present |-> TRUE, header |-> REQUIRED_COLUMNS, rows |-> <<Row128, Row256>>],
    [present |-> TRUE, header |-> REQUIRED_COLUMNS \ {"size_name"}, rows |-> <<Row128>>],
    [present |-> FALSE, header |-> {}, rows |-> <<>>] }

Cells(new, good) ==
  [c \in ConditionSet |-> CASE c = "New" -> new [] c = "Good" -> good [] OTHER -> Str("")]

ReportRow(model, storage, rank, delta) ==
  [model |-> model, storage |-> storage, rank |-> rank, delta |-> delta]

ReportRowSamples ==
  { ReportRow("iPhone 12", "128GB", Cells(Num(Dollars(2)), Num(Dollars(1))),
              Cells(Num(Dollars(-15)), Num(Dollars(-8)))),
    ReportRow("iPhone 12", "256 gb", Cells(Str(""), Num(Dollars(3))),
              Cells(Num(Dollars(-10)), Num(Dollars(-50)))),
    ReportRow("Pixel 9", "128GB", Cells(Num(Dollars(2)), Num(Dollars(2))),
              Cells(Num(Dollars(-3)), Str("n/a"))),
    ReportRow(" ", "128GB", Cells(Num(Dollars(2)), Num(Dollars(2))),
              Cells(Num(Dollars(-3)), Num(Dollars(-3)))) }

\* A report header with the columns of two conditions (Mint Δ is missing, so Mint
\* gives no record), and one without the Model column.
ReportHeaders ==
  { {"Model", "Storage", "New Rank", "New Δ", "Good Rank", "Good Δ", "Mint Rank"},
    {"Storage", "New Rank", "New Δ", "Good Rank", "Good Δ"} }

ReportSheets ==
  {[short |-> FALSE, header |-> h, rows |-> rs] :
      h \in ReportHeaders, rs \in SeqsUpTo(ReportRowSamples, MaxReportRows)}
  \cup {[short |-> TRUE, header |-> {}, rows |-> <<>>]}

\* The report tabs of the modelled spreadsheets: Unlocked has none, the AllGB one
\* or the legacy one; AT&T has none or the AllGB one; the other carriers have none.
NoTabs == [c \in Carriers |-> "none"]
TabLayouts ==
  {k \in [Carriers -> {"none", "AllGB", "Legacy"}] :
      /\ k["AT&T"] # "Legacy"
      /\ \A c \in Carriers \ {"Unlocked", "AT&T"} : k[c] = "none"}

BaseUrls == {"", "https://api.reusely.test"}
ApiResponses == {"200", "500"}
PutResponses == {"200", "500", "throw"}

StaleRow ==
  [carrier |-> "Verizon", model |-> "iPhone 11", storage |-> "64GB", condition |-> "Fair",
   rank |-> Num(Dollars(1)), delta |-> Num(0), currentPrice |-> Num(Dollars(100)),
   proposedPrice |-> Num(Dollars(100)), status |-> <<"NO CHANGE", "DRY-RUN">>,
   product_id |-> "999"]

-----------------------------------------------------------------------------
(* PROPOSALS *)

BuilderEntries == {"applyAllTabs", "dryRunAllTabs", "_runCarrierOnce_"}

\* The entry points that call buildProposals_: the single-pass ones, and the
\* sequential runner through processNextCarrier_.
RunsBuilder == entry \in BuilderEntries \/ entry = "_startSequential_"

\* carriersFilter && carriersFilter.length ? REPORT_TABS.filter(...) : REPORT_TABS
carriersToRun ==
  IF carriersFilter # {}
  THEN SelectSeq(REPORT_TABS, LAMBDA s : s.carrier \in carriersFilter)
  ELSE REPORT_TABS

\* proposed!=="" && !isNaN(Number(proposed))
ValidProposed(proposed) == proposed # Str("") /\ ~JsNumber(proposed).nan

\* The push condition without the test of productId
ShouldPushWithoutProduct(apply, productId, proposed) ==
  apply /\ ValidProposed(proposed)

\* The push condition without the test of doApply
ShouldPushInDryRun(apply, productId, proposed) ==
  productId # "" /\ ValidProposed(proposed)

\* doApply && productId && proposed!=="" && !isNaN(Number(proposed))
ShouldPush(apply, productId, proposed) ==
  apply /\ productId # "" /\ ValidProposed(proposed)

\* applyAllTabs, dryRunAllTabs, _runCarrierOnce_: clearProposals_()
StartEntry ==
  /\ entry \in BuilderEntries /\ pc = "start"
  /\ log' = <<>>
  /\ pc' = "catalog"
  /\ UNCHANGED <<exportVars, seqVars>>
  /\ UNCHANGED <<entry, policyVars, catVars, runVars, buildVars, requests, pushVars, outcome>>

\* buildProposals_: buildCatalogIndex_() and the set-up before the carrier loop
BuildIndex ==
  /\ RunsBuilder /\ pc = "catalog"
  /\ \E sheet \in (IF catalog = NoSheet THEN BuilderCatalogs ELSE {catalog}) :
       LET res == buildCatalogIndex_(sheet)
       IN /\ catalog' = sheet
          /\ IF res.error # ""
             THEN /\ pc' = "failed" /\ outcome' = res.error
                  /\ UNCHANGED <<idx, priceLookup>>
             ELSE /\ pc' = "carrier" /\ outcome' = outcome
                  /\ idx' = res.idx /\ priceLookup' = res.priceLookup
  /\ UNCHANGED <<exportVars, seqVars>>
  /\ UNCHANGED <<entry, policyVars, probe, found, runVars, log, buildVars, requests, pushVars>>

\* One turn of "for (const spec of carriersToRun)" up to records.forEach: a carrier
\* without a tab is skipped, a tab without a Model column raises.
NextCarrier ==
  /\ RunsBuilder /\ pc = "carrier" /\ carrierI <= Len(carriersToRun)
  /\ LET spec == carriersToRun[carrierI]
         tab == pickReportTab_(tabKind, spec.tabAll, spec.tabLegacy)
     IN IF tab = ""
        THEN /\ carrierI' = carrierI + 1
             /\ UNCHANGED <<pc, hasAllGb, records, recI, outcome>>
        ELSE \E sheet \in ReportSheets :
               LET res == readReportRows_(sheet)
               IN /\ hasAllGb' = SheetExists(tabKind, spec.tabAll)
                  /\ IF res.error # ""
                     THEN /\ pc' = "failed" /\ outcome' = res.error
                          /\ UNCHANGED <<carrierI, records, recI>>
                     ELSE IF res.records = <<>>
                     THEN /\ carrierI' = carrierI + 1
                          /\ UNCHANGED <<pc, records, recI, outcome>>
                     ELSE /\ records' = res.records /\ recI' = 1 /\ pc' = "record"
                          /\ UNCHANGED <<carrierI, outcome>>
  /\ UNCHANGED <<exportVars, seqVars>>
  /\ UNCHANGED <<entry, policyVars, catVars, runVars, log, out, calls, requests, pushVars>>

\* buildProposals_: currentPrice, from the catalog when it has price columns, else
\* from the pricing API when the product is known, else null.
CurrentPriceOf(model, carrierNorm, storage, cond, productId, apiResp) ==
  IF DOMAIN priceLookup # {}
  THEN getCurrentPriceFromCatalog_(priceLookup, model, carrierNorm, storage, cond)
  ELSE IF productId # ""
  THEN CurrentPriceFromApi(getCurrentPriceViaApi_(baseUrl, productId, apiResp), cond)
  ELSE Null

\* buildProposals_: statusParts, as the sequence of the parts joined by " | ".
StatusParts(productId, res, push, result) ==
  (IF productId = "" THEN <<"NO CATALOG MATCH">> ELSE <<>>)
  \o (IF ~ValidProposed(res.proposed)
      THEN <<IF res.reason # "" THEN res.reason ELSE "NO PROPOSED PRICE">>
      ELSE <<res.reason>> \o (IF ~doApply THEN <<"DRY-RUN">> ELSE <<>>))
  \o (IF push
      THEN <<IF result.ok THEN "APPLIED"
             ELSE IF result.note # ""
             THEN "APPLY FAILED (" \o result.note \o ")"
             ELSE "APPLY FAILED">>
      ELSE IF doApply THEN <<"SKIPPED">> ELSE <<>>)

\* The row pushed to out.
ProposalRow(carrier, model, storage, rec, currentPrice, proposed, status, productId) ==
  [carrier |-> carrier, model |-> model, storage |-> storage,
   condition |-> rec.condition, rank |-> rec.rank, delta |-> rec.delta,
   currentPrice |-> IF currentPrice = Null THEN Str("") ELSE currentPrice,
   proposedPrice |-> IF proposed = Str("") THEN Str("") ELSE Num(JsNumber(proposed).n),
   status |-> status, product_id |-> productId]

\* The requests of one call of putPrice_, tagged with the row and the response.
Sent(result, rowNo, resp) ==
  [i \in 1..Len(result.sent) |->
     [row |-> rowNo, product_id |-> result.sent[i].product_id,
      conditions |-> result.sent[i].conditions, response |-> resp]]

\* The end of the callback of records.forEach: the call of putPrice_, if it is made,
\* and the row appended to out.  An exception of putPrice_ would leave the callback
\* before the row is pushed.
RecordOutcome(row, push, call, result, putResp) ==
  IF push /\ result.thrown
  THEN /\ calls' = Append(calls, call)
       /\ requests' = requests \o Sent(result, call.row, putResp)
       /\ pc' = "failed" /\ outcome' = result.note
       /\ UNCHANGED <<out, recI, carrierI>>
  ELSE /\ calls' = IF push THEN Append(calls, call) ELSE calls
       /\ requests' = IF push THEN requests \o Sent(result, call.row, putResp)
                      ELSE requests
       /\ out' = Append(out, row)
       /\ IF recI < Len(records)
          THEN recI' = recI + 1 /\ UNCHANGED <<pc, carrierI>>
          ELSE recI' = recI /\ pc' = "carrier" /\ carrierI' = carrierI + 1
       /\ outcome' = outcome

\* One call of the callback of records.forEach, under the responses of the pricing
\* API; each constant of the callback is bound in the order the code computes it.
\* A call of putPrice_ is tagged with the row of the Proposals sheet that the record
\* is to get.
ProcessRecord ==
  /\ RunsBuilder /\ pc = "record"
  /\ \E apiResp \in ApiResponses, putResp \in PutResponses :
     \E rec \in {records[recI]}, carrier \in {carriersToRun[carrierI].carrier} :
     \E carrierNorm \in {_normalizeCarrier(carrier)}, model \in {_norm(rec.model)},
        storage \in {IF hasAllGb THEN _gbNormalize(_norm(rec.storage)) ELSE ""} :
     \E productId \in {LookupCatalog(idx, model, carrierNorm, storage).product_id} :
     \E currentPrice \in
          {CurrentPriceOf(model, carrierNorm, storage, rec.condition, productId, apiResp)} :
     \E res \in {computeNewPrice_(currentPrice, rec.rank, rec.delta, rec.condition)} :
     \E push \in {ShouldPush(doApply, productId, res.proposed)},
        result \in {putPrice_(baseUrl, productId, rec.condition,
                              JsNumber(res.proposed).n, putResp)} :
       RecordOutcome(
         ProposalRow(carrier, model, storage, rec, currentPrice, res.proposed,
                     StatusParts(productId, res, push, result), productId),
         push,
         [row |-> Len(log) + Len(out) + 1, productId |-> productId,
          condition |-> rec.condition,
          price |-> res.proposed],
         result, putResp)
  /\ UNCHANGED <<exportVars, seqVars>>
  /\ UNCHANGED <<entry, policyVars, catVars, runVars, log, hasAllGb, records, pushVars>>

\* After the carrier loop: out is written to the Proposals sheet in one setValues,
\* and the entry point alerts that the run is complete.
WriteProposals ==
  /\ entry \in BuilderEntries /\ pc = "carrier" /\ carrierI > Len(carriersToRun)
  /\ log' = log \o out
  /\ pc' = "done"
  /\ outcome' = "success"
  /\ UNCHANGED <<exportVars, seqVars>>
  /\ UNCHANGED <<entry, policyVars, catVars, runVars, buildVars, requests, pushVars>>

-----------------------------------------------------------------------------
(* pushPrices *)

SheetRow(productId, condition, proposed) ==
  [product_id |-> productId, Condition |-> condition, ProposedPrice |-> proposed]

SheetRowSamples ==
  { SheetRow(Str("101"), Str("New"), Str("665")),
    SheetRow(Str("101"), Str("Good"), Str("12.5")),
    SheetRow(Str("102"), Str("Mint"), Str("700")),
    SheetRow(Str(""), Str("Good"), Str("700")),
    SheetRow(Str("103"), Str("Fair"), Str("abc")),
    SheetRow(Str("104"), Str("New"), Null) }

PROPOSALS_COLUMNS == {"product_id", "Condition", "ProposedPrice"}
SheetHeaders == {PROPOSALS_COLUMNS, PROPOSALS_COLUMNS \ {"ProposedPrice"}}

\* The fetch of pushPrices without its try/catch
TryFetchUncaught(base, resp) ==
  IF base = "" \/ resp = "throw" THEN [ok |-> FALSE, uncaught |-> TRUE]
  ELSE [ok |-> resp = "200", uncaught |-> FALSE]

\* try { fetch ... } catch (err) { console.error }: a response that is not ok and an
\* exception (the only outcome without a base URL) are logged, nothing is rethrown.
TryFetch(base, resp) ==
  IF base = "" \/ resp = "throw" THEN [ok |-> FALSE, uncaught |-> FALSE]
  ELSE [ok |-> resp = "200", uncaught |-> FALSE]

\* A fetch that is repeated once
AttemptsTwice(row) == 2

\* The requests one turn of the loop sends for a row it does not skip.
Attempts(row) == 1

\* sheets.spreadsheets.values.get and the header check
ReadProposals ==
  /\ entry = "pushPrices" /\ pc = "start"
  /\ \E got \in {"throw", "ok"}, header \in SheetHeaders,
        rows \in SeqsUpTo(SheetRowSamples, MaxSheetRows) :
       IF got = "throw"
       THEN /\ pc' = "failed" /\ outcome' = "Script failed: the sheet cannot be read"
            /\ UNCHANGED <<sheetRows, rowI>>
       ELSE IF rows = <<>>
       THEN pc' = "done" /\ outcome' = "success" /\ UNCHANGED <<sheetRows, rowI>>
       ELSE IF ~(PROPOSALS_COLUMNS \subseteq header)
       THEN /\ pc' = "failed"
            /\ outcome' = "Script failed: Proposals tab missing required columns"
            /\ UNCHANGED <<sheetRows, rowI>>
       ELSE pc' = "row" /\ sheetRows' = rows /\ rowI' = 1 /\ outcome' = outcome
  /\ UNCHANGED <<exportVars, seqVars>>
  /\ UNCHANGED <<entry, policyVars, catVars, runVars, log, buildVars, requests>>

\* One turn of "for (let i = 1; i < rows.length; i++)"; after the last one
\* pushPrices returns and the process exits with code 0.  Without a base URL the
\* URL is not absolute and fetch raises before it sends anything.
PushRow ==
  /\ entry = "pushPrices" /\ pc = "row"
  /\ \E resp \in PutResponses :
       LET r == sheetRows[rowI]
           skip == ~Truthy(r.product_id) \/ ~Truthy(r.Condition) \/ ~Truthy(r.ProposedPrice)
                   \/ JsNumber(r.ProposedPrice).nan
           payload == [row |-> rowI,
                       product_id |-> JsNumber(r.product_id).n,
                       conditions |-> << [name |-> condMap(r.Condition.s),
                                          price |-> MathRound(JsNumber(r.ProposedPrice).n)] >>,
                       response |-> resp]
           call == [row |-> rowI, productId |-> r.product_id.s,
                    condition |-> r.Condition.s,
                    price |-> Num(JsNumber(r.ProposedPrice).n)]
           f == TryFetch(baseUrl, resp)
       IN /\ calls' = IF skip THEN calls ELSE Append(calls, call)
          /\ requests' = IF skip \/ baseUrl = "" THEN requests
                         ELSE requests \o [i \in 1..Attempts(r) |-> payload]
          /\ IF ~skip /\ f.uncaught
             THEN pc' = "failed" /\ outcome' = "Script failed: fetch" /\ rowI' = rowI
             ELSE IF rowI < Len(sheetRows)
             THEN rowI' = rowI + 1 /\ UNCHANGED <<pc, outcome>>
             ELSE rowI' = rowI + 1 /\ pc' = "done" /\ outcome' = "success"
  /\ UNCHANGED <<exportVars, seqVars>>
  /\ UNCHANGED <<entry, policyVars, catVars, runVars, log, carrierI, hasAllGb, records,
                 recI, out, sheetRows>>

-----------------------------------------------------------------------------
(* SEQUENTIAL RUNNER *)

\* for (const spec of REPORT_TABS) { ... if (tab) queue.push(spec.carrier); }
RECURSIVE CarriersWithTab(_)
CarriersWithTab(i) ==
  IF i > Len(REPORT_TABS) THEN <<>>
  ELSE (IF pickReportTab_(tabKind, REPORT_TABS[i].tabAll, REPORT_TABS[i].tabLegacy) # ""
        THEN <<REPORT_TABS[i].carrier>> ELSE <<>>) \o CarriersWithTab(i + 1)

\* _startSequential_(apply): the Proposals sheet is cleared, the queue and the flag
\* are stored, and a trigger of processNextCarrier_ is created.
StartSequential ==
  /\ entry = "_startSequential_" /\ pc = "start"
  /\ log' = <<>>
  /\ queue' = CarriersWithTab(1)
  /\ applyFlag' = doApply
  /\ triggers' = 1
  /\ pc' = "idle"
  /\ UNCHANGED <<entry, policyVars, catVars, runVars, buildVars, requests, pushVars,
                 outcome, exportVars, processed>>

\* A trigger fires: processNextCarrier_ up to its call of buildProposals_.  With an
\* empty queue it deletes the triggers and returns; else it stores the queue without
\* its head and calls buildProposals_(apply, [carrier]).
ProcessNextCarrier ==
  /\ entry = "_startSequential_" /\ pc = "idle" /\ triggers > 0
  /\ IF queue = <<>>
     THEN /\ triggers' = 0 /\ pc' = "finished"
          /\ UNCHANGED <<queue, processed, doApply, carriersFilter, carrierI, out>>
     ELSE /\ triggers' = triggers - 1
          /\ queue' = Tail(queue)
          /\ processed' = Append(processed, Head(queue))
          /\ doApply' = applyFlag
          /\ carriersFilter' = {Head(queue)}
          /\ carrierI' = 1 /\ out' = <<>>
          /\ pc' = "catalog"
  /\ UNCHANGED <<entry, policyVars, catVars, baseUrl, tabKind, log, hasAllGb, records, recI,
                 calls, requests, pushVars, outcome, exportVars, applyFlag>>

\* buildProposals_ returns to processNextCarrier_: out is written to the Proposals
\* sheet; with carriers left a new trigger is created, else the triggers are deleted
\* and the end of the sequence is alerted.
ProcessNextCarrierEnd ==
  /\ entry = "_startSequential_" /\ pc = "carrier" /\ carrierI > Len(carriersToRun)
  /\ log' = log \o out
  /\ IF queue # <<>>
     THEN triggers' = 1 /\ pc' = "idle" /\ outcome' = outcome
     ELSE triggers' = 0 /\ pc' = "finished" /\ outcome' = "success"
  /\ UNCHANGED <<entry, policyVars, catVars, runVars, buildVars, requests, pushVars,
                 exportVars, queue, applyFlag, processed>>

-----------------------------------------------------------------------------
(* CSV EXPORT (CHANGED ONLY) *)

\* const condToApi = { "New":"New", "Mint":"Flawless", ... }; "" for any other name
condToApi(cond) ==
  CASE cond = "Mint" -> "Flawless"
    [] cond \in ConditionSet -> cond
    [] OTHER -> ""

ApiKeys == {"New", "Flawless", "Good", "Fair", "Broken"}

\* const PRICE_HEADERS = ["Brand New","Flawless","Good","Fair","Broken"], as the
\* header of each key of latestByPid
PRICE_HEADERS(key) == IF key = "New" THEN "Brand New" ELSE key

\* numOrZero
numOrZero(v) == LET n == JsNumber(v) IN IF n.nan THEN 0 ELSE MathRound(n.n)

\* numOrKeep; undefined (a product without proposals) is Null
numOrKeep(v, keep) ==
  IF v = Null \/ v = Str("") \/ JsNumber(v).nan THEN keep ELSE MathRound(JsNumber(v).n)

\* The loop over the Proposals rows: latestByPid
RECURSIVE latestByPid(_, _, _)
latestByPid(pVals, i, acc) ==
  IF i > Len(pVals) THEN acc
  ELSE LET pid == _norm(pVals[i].product_id)
           cond == _norm(pVals[i].condition)
           prop == pVals[i].proposedPrice
           key == condToApi(cond)
           skip == pid = "" \/ cond = "" \/ prop = Str("") \/ prop = Null
                   \/ JsNumber(prop).nan \/ key = ""
           old == IF pid \in DOMAIN acc THEN acc[pid] ELSE [k \in ApiKeys |-> Str("")]
       IN latestByPid(pVals, i + 1,
            IF skip THEN acc
            ELSE Put(acc, pid, [old EXCEPT ![key] = Num(MathRound(JsNumber(prop).n))]))

\* getCellByName(row, name), for a price header: "" when the catalog has no such column
getCellByName(header, row, key) ==
  IF PRICE_HEADERS(key) \in header
  THEN row.price[CHOOSE c \in ConditionSet : condToApi(c) = key]
  ELSE Str("")

\* One turn of the loop over the catalog rows: the row pushed to out, if any.
ExportRow(header, row, latest) ==
  LET pid == _norm(row.product_id)
      curPrices == [k \in ApiKeys |-> numOrZero(getCellByName(header, row, k))]
      newPrices == [k \in ApiKeys |->
                      numOrKeep(IF pid \in DOMAIN latest THEN latest[pid][k] ELSE Null,
                                curPrices[k])]
  IN IF pid = "" \/ newPrices = curPrices THEN <<>>
     ELSE << [product_id |-> row.product_id, prices |-> newPrices] >>

RECURSIVE ExportRows(_, _, _, _)
ExportRows(header, cVals, i, latest) ==
  IF i > Len(cVals) THEN <<>>
  ELSE ExportRow(header, cVals[i], latest) \o ExportRows(header, cVals, i + 1, latest)

\* exportCsvForReuselyChangedOnly: the data rows of the CSV it creates; none when a
\* sheet is missing or empty, or when no row has changed.
exportCsvForReuselyChangedOnly(proposals, sheet) ==
  IF proposals = <<>> \/ ~sheet.present \/ sheet.rows = <<>> THEN <<>>
  ELSE ExportRows(sheet.header, sheet.rows, 1, latestByPid(proposals, 1, EmptyMap))

\* The Proposals rows and the catalogs the export is run on.
ExportProposal(pid, cond, proposed) ==
  [carrier |-> "Unlocked", model |-> "iPhone 12", storage |-> "128GB", condition |-> cond,
   rank |-> Num(Dollars(2)), delta |-> Num(Dollars(-15)), currentPrice |-> Num(Dollars(700)),
   proposedPrice |-> proposed, status |-> <<"NEW: TOP-$20", "DRY-RUN">>, product_id |-> pid]

ExportProposalSamples ==
  { ExportProposal("101", "New", Num(Dollars(665))),
    ExportProposal("101", "New", Num(Dollars(700))),
    ExportProposal("103", "Good", Num(Dollars(10) + 1)),
    ExportProposal("101", "Mint", Str("")) }

ExportCatalogs ==
  {[present |-> TRUE, header |-> h, rows |-> rs] :
      h \in {REQUIRED_COLUMNS \cup PriceColumns, REQUIRED_COLUMNS},
      rs \in SeqsUpTo({Row128, Row256, RowNoId}, MaxCatalogRows)}

\* A run of exportCsvForReuselyChangedOnly from the menu: the first on sheets as they
\* are found, the second on the same sheets (the export writes to no sheet).
ExportCsv ==
  /\ entry = "exportCsvForReuselyChangedOnly"
  /\ \/ /\ pc = "start"
        /\ \E proposals \in SeqsUpTo(ExportProposalSamples, MaxSheetRows),
              sheet \in ExportCatalogs :
             /\ log' = proposals /\ catalog' = sheet
             /\ exported' = <<exportCsvForReuselyChangedOnly(proposals, sheet)>>
        /\ pc' = "exported"
     \/ /\ pc = "exported"
        /\ exported' = Append(exported, exportCsvForReuselyChangedOnly(log, catalog))
        /\ pc' = "done"
        /\ UNCHANGED <<log, catalog>>
  /\ UNCHANGED <<entry, policyVars, idx, priceLookup, probe, found, runVars, buildVars,
                 requests, pushVars, outcome, seqVars>>

-----------------------------------------------------------------------------
(* The policy engine and the catalog index on their own *)

CurrentCells ==
  {Null, Str(""), Str("abc"), Str(" "), Str("700"),
   Num(0), Num(Dollars(10)), Num(Dollars(10) + 1), Num(Dollars(500)), Num(Dollars(700))}
RankCells ==
  {Null, Str(""), Str("n/a"), Str("2"), Num(Dollars(1)), Num(Dollars(2)), Num(Dollars(3))}
DeltaCells ==
  {Null, Str(""), Str("n/a"), Num(Dollars(-50)), Num(Dollars(-15)), Num(Dollars(-10)),
   Num(Dollars(-8)), Num(Dollars(-5) - 1), Num(Dollars(-5)), Num(Dollars(-3)), Num(Dollars(4))}

NoCall == [current |-> Null, rank |-> Null, delta |-> Null, condition |-> ""]
NoResult == [proposed |-> Str(""), reason |-> ""]

\* A call of computeNewPrice_.
PolicyCall ==
  /\ entry = "computeNewPrice_" /\ pc = "start"
  /\ \E current \in CurrentCells, rank \in RankCells, delta \in DeltaCells,
        condition \in ConditionSet :
       /\ pin' = [current |-> current, rank |-> rank, delta |-> delta,
                  condition |-> condition]
       /\ pout' = computeNewPrice_(current, rank, delta, condition)
  /\ pc' = "done"
  /\ UNCHANGED <<exportVars, seqVars>>
  /\ UNCHANGED <<entry, catVars, runVars, log, buildVars, requests, pushVars, outcome>>

ProbeModels == {"iPhone 12", "iPhone SE 2", "Pixel 9"}
ProbeCarriers == {"Unlocked", "AT&T"}
ProbeStorages == {"", "128GB", "256GB", "512GB"}

\* A call of buildCatalogIndex_ on a catalog sheet.
CatalogBuild ==
  /\ entry = "buildCatalogIndex_" /\ pc = "start"
  /\ \E header \in CatalogHeaders, rows \in SeqsUpTo(CatalogRowSamples, MaxCatalogRows) :
       LET sheet == [present |-> TRUE, header |-> header, rows |-> rows]
           res == buildCatalogIndex_(sheet)
       IN /\ catalog' = sheet
          /\ IF res.error # ""
             THEN pc' = "failed" /\ outcome' = res.error /\ UNCHANGED <<idx, priceLookup>>
             ELSE /\ pc' = "indexed" /\ outcome' = outcome
                  /\ idx' = res.idx /\ priceLookup' = res.priceLookup
  /\ UNCHANGED <<exportVars, seqVars>>
  /\ UNCHANGED <<entry, policyVars, probe, found, runVars, log, buildVars, requests, pushVars>>

\* The look-up that buildProposals_ makes for a record, on the index just built.
CatalogLookup ==
  /\ entry = "buildCatalogIndex_" /\ pc = "indexed"
  /\ \E model \in ProbeModels, carrier \in ProbeCarriers, storage \in ProbeStorages :
       /\ probe' = <<_cleanCatalogModelName_(model), carrier, storage>>
       /\ found' = LookupCatalog(idx, model, carrier, storage)
  /\ pc' = "looked"
  /\ UNCHANGED <<exportVars, seqVars>>
  /\ UNCHANGED <<entry, policyVars, catalog, idx, priceLookup, runVars, log, buildVars,
                 requests, pushVars, outcome>>

-----------------------------------------------------------------------------

Init ==
  /\ pc = "start"
  /\ pin = NoCall /\ pout = NoResult
  /\ catalog = NoSheet /\ idx = EmptyMap /\ priceLookup = EmptyMap
  /\ probe = <<>> /\ found = NoCat
  /\ carrierI = 1 /\ hasAllGb = FALSE /\ records = <<>> /\ recI = 1
  /\ out = <<>> /\ calls = <<>> /\ requests = <<>>
  /\ sheetRows = <<>> /\ rowI = 1
  /\ outcome = "none"
  /\ exported = <<>>
  /\ queue = <<>> /\ applyFlag = FALSE /\ triggers = 0 /\ processed = <<>>
  /\ \/ /\ entry \in {"computeNewPrice_", "buildCatalogIndex_",
                      "exportCsvForReuselyChangedOnly"}
        /\ doApply = FALSE /\ carriersFilter = {} /\ baseUrl = "" /\ tabKind = NoTabs
        /\ log = <<>>
     \/ /\ entry = "pushPrices"
        /\ doApply = TRUE /\ carriersFilter = {} /\ baseUrl \in BaseUrls /\ tabKind = NoTabs
        /\ log = <<>>
     \/ /\ entry \in {"applyAllTabs", "dryRunAllTabs"}
        /\ doApply = (entry = "applyAllTabs") /\ carriersFilter = {}
        /\ baseUrl \in BaseUrls /\ tabKind \in TabLayouts
        /\ log \in {<<>>, <<StaleRow>>}
     \/ /\ entry = "_startSequential_"
        /\ doApply \in BOOLEAN /\ carriersFilter = {}
        /\ baseUrl \in BaseUrls /\ tabKind \in TabLayouts
        /\ log \in {<<>>, <<StaleRow>>}
     \/ /\ entry = "_runCarrierOnce_"
        /\ doApply \in BOOLEAN /\ carriersFilter \in {{c} : c \in Carriers}
        /\ baseUrl \in BaseUrls /\ tabKind \in TabLayouts
        /\ log \in {<<>>, <<StaleRow>>}

Next ==
  \/ PolicyCall
  \/ CatalogBuild
  \/ CatalogLookup
  \/ ExportCsv
  \/ ReadProposals
  \/ PushRow
  \/ StartEntry
  \/ BuildIndex
  \/ NextCarrier
  \/ ProcessRecord
  \/ WriteProposals
  \/ StartSequential
  \/ ProcessNextCarrier
  \/ ProcessNextCarrierEnd

Spec == Init /\ [][Next]_vars

-----------------------------------------------------------------------------
(* Properties *)

Range(s) == {s[i] : i \in DOMAIN s}
Last(s) == s[Len(s)]

\* A cell that holds a number, in the sense of the checks of computeNewPrice_.
Numeric(v) == v # Null /\ v # Str("") /\ ~JsNumber(v).nan
Val(v) == JsNumber(v).n

NoProposal(reason) == [proposed |-> Str(""), reason |-> reason]

PolicyReturned == entry = "computeNewPrice_" /\ pc = "done"
BuilderRun == entry \in BuilderEntries

HasCall(i) == \E c \in Range(calls) : c.row = i
HasRequest(i) == \E q \in Range(requests) : q.row = i

\* The errors that stop a run: the catalog, a report tab or the Proposals sheet cannot
\* be used.
ConfigErrors ==
  {"Missing sheet: Reusely_Catalog", "Reusely_Catalog has no data.",
   "Reusely_Catalog missing required column", "report tab missing column: Model",
   "Script failed: the sheet cannot be read",
   "Script failed: Proposals tab missing required columns"}

\* While a carrier's records are being processed, each record before the next one
\* has its row in out.
RecordsSoFarRecorded ==
  (BuilderRun /\ pc = "record") =>
     /\ Len(out) >= recI - 1
     /\ \A j \in 1..(recI - 1) :
          LET row == out[Len(out) - (recI - 1) + j]
          IN /\ row.model = _norm(records[j].model)
             /\ row.condition = records[j].condition
             /\ row.rank = records[j].rank
             /\ row.delta = records[j].delta

\* C1: for a numeric current price cur, a numeric delta d and a numeric rank other
\* than 1, computeNewPrice_(cur, r, d, "New") returns max(0, cur + d - 20) with the
\* reason "NEW: TOP-$20", not the CHASE #1 result.
C1_NewUndercutsLeader ==
  (/\ PolicyReturned /\ pin.condition = "New"
   /\ Numeric(pin.current) /\ Numeric(pin.rank) /\ Numeric(pin.delta)
   /\ Val(pin.rank) # Dollars(1))
  => /\ pout.proposed = Num(Max(0, Val(pin.current) + Val(pin.delta) - Dollars(20)))
     /\ pout.reason = "NEW: TOP-$20"
     /\ pout.reason # "CHASE #1"

\* C1 witness: cur = 700, r = 2, d = -15, New gives 665.
C1_Witness ==
  /\ PolicyReturned
  /\ pin = [current |-> Num(Dollars(700)), rank |-> Num(Dollars(2)),
            delta |-> Num(Dollars(-15)), condition |-> "New"]
  /\ pout = [proposed |-> Num(Dollars(665)), reason |-> "NEW: TOP-$20"]

\* C2: for numeric cur, r, d where the New rule does not apply (condition other than
\* New, or r = 1): r # 1 gives cur + d + 1 "CHASE #1"; r = 1 and -d > 5 gives
\* cur + d + 1 "TRIM LEAD"; r = 1 and -d <= 5 gives cur "NO CHANGE".
C2_GenericRules ==
  (/\ PolicyReturned
   /\ Numeric(pin.current) /\ Numeric(pin.rank) /\ Numeric(pin.delta)
   /\ (pin.condition # "New" \/ Val(pin.rank) = Dollars(1)))
  => LET cur == Val(pin.current)
         r == Val(pin.rank)
         d == Val(pin.delta)
     IN /\ r # Dollars(1)
             => pout = [proposed |-> Num(cur + d + Dollars(1)), reason |-> "CHASE #1"]
        /\ (r = Dollars(1) /\ 0 - d > Dollars(5))
             => pout = [proposed |-> Num(cur + d + Dollars(1)), reason |-> "TRIM LEAD"]
        /\ (r = Dollars(1) /\ 0 - d <= Dollars(5))
             => pout = [proposed |-> Num(cur), reason |-> "NO CHANGE"]

\* C2 witness: cur = 500, r = 1, d = -5 (a lead of exactly the threshold), Good gives
\* 500 "NO CHANGE".
C2_Witness ==
  /\ PolicyReturned
  /\ pin = [current |-> Num(Dollars(500)), rank |-> Num(Dollars(1)),
            delta |-> Num(Dollars(-5)), condition |-> "Good"]
  /\ pout = [proposed |-> Num(Dollars(500)), reason |-> "NO CHANGE"]

\* C3: without a numeric current price the policy returns no price and "NO CURRENT
\* PRICE" whatever rank and delta are; otherwise without a numeric rank or delta it
\* returns no price and "MISSING RANK/Δ"; the builder records the row with that
\* reason, pushes nothing for it, does not fail, and goes on to the later records.
C3_InsufficientData ==
  /\ PolicyReturned =>
       /\ ~Numeric(pin.current) => pout = NoProposal("NO CURRENT PRICE")
       /\ (Numeric(pin.current) /\ (~Numeric(pin.rank) \/ ~Numeric(pin.delta)))
            => pout = NoProposal("MISSING RANK/Δ")
  /\ BuilderRun =>
       /\ \A i \in DOMAIN out :
            LET row == out[i]
                noCurrent == row.currentPrice = Str("")
                noRank == ~Numeric(row.rank) \/ ~Numeric(row.delta)
            IN (noCurrent \/ noRank) =>
                 /\ row.proposedPrice = Str("")
                 /\ (IF noCurrent THEN "NO CURRENT PRICE" ELSE "MISSING RANK/Δ")
                      \in Range(row.status)
                 /\ ~HasCall(i) /\ ~HasRequest(i)
       /\ pc = "failed" => outcome \in ConfigErrors
       /\ RecordsSoFarRecorded

\* C3 witness: a finished run with a row recorded "NO CURRENT PRICE", nothing pushed
\* for it, and a later row pushed.
C3_Witness ==
  /\ BuilderRun /\ pc = "done"
  /\ \E i, j \in DOMAIN out :
       /\ i < j
       /\ out[i].proposedPrice = Str("")
       /\ "NO CURRENT PRICE" \in Range(out[i].status)
       /\ ~HasRequest(i)
       /\ HasRequest(j)

\* The catalog rows that buildCatalogIndex_ registers, in sheet order.
Registered(rows) ==
  SelectSeq([i \in DOMAIN rows |-> CatalogRowEntry(rows[i])], LAMBDA e : ~e.skipped)

\* C4: after buildCatalogIndex_, looking up a triple present in the catalog returns
\* an entry of that exact triple, and looking up a triple that has no
\* storage-specific entry returns the first-registered entry of its (model, network).
C4_LooseKeyFirstRegistered ==
  (entry = "buildCatalogIndex_" /\ pc = "looked") =>
     LET es == Registered(catalog.rows)
         exact == {i \in DOMAIN es :
                     <<es[i].model, es[i].network_name, es[i].size_name>> = probe}
         same == {i \in DOMAIN es :
                     <<es[i].model, es[i].network_name>> = <<probe[1], probe[2]>>}
         first == CHOOSE i \in same : \A k \in same : i <= k
     IN /\ exact # {} => found \in {Entry(es[i]) : i \in exact}
        /\ (exact = {} /\ same # {}) => found = Entry(es[first])

\* The proposed price that computeNewPrice_ gives for the row, as the row stores it.
ProposedFor(row) ==
  LET cur == IF row.currentPrice = Str("") THEN Null ELSE row.currentPrice
      p == computeNewPrice_(cur, row.rank, row.delta, row.condition).proposed
  IN IF p = Str("") THEN Str("") ELSE Num(JsNumber(p).n)

\* C5: the builder calls putPrice_ for a record iff the run applies, a product_id
\* was resolved and a valid proposed price was computed; a dry run sends no request,
\* and still computes and records every proposal.
C5_PushIffEligible ==
  BuilderRun =>
    /\ \A i \in DOMAIN out :
         /\ HasCall(i) <=> (doApply /\ out[i].product_id # ""
                            /\ Numeric(out[i].proposedPrice))
         /\ out[i].proposedPrice = ProposedFor(out[i])
    /\ \A c \in Range(calls) : c.row \in DOMAIN out
    /\ \A q \in Range(requests) : HasCall(q.row)
    /\ ~doApply => (calls = <<>> /\ requests = <<>>)
    /\ RecordsSoFarRecorded
    /\ pc = "done" => log = out

\* C5 witness: a finished apply run with a record pushed and a record skipped.
C5_Witness ==
  /\ BuilderRun /\ pc = "done" /\ doApply
  /\ \E i, j \in DOMAIN out :
       /\ HasCall(i) /\ "APPLIED" \in Range(out[i].status)
       /\ ~HasCall(j) /\ "SKIPPED" \in Range(out[j].status)

\* C6: in one run, a product_id with two or more condition updates gets exactly one
\* request that carries all of them, so that no two requests of a run carry the same
\* product_id with different conditions.
C6_OneRequestPerProduct ==
  \A i, j \in DOMAIN requests :
     (/\ requests[i].product_id = requests[j].product_id
      /\ requests[i].conditions[1].name # requests[j].conditions[1].name) => i = j

\* The rows of the Proposals sheet that pushPrices does not skip.
Eligible(r) ==
  /\ Truthy(r.product_id) /\ Truthy(r.Condition) /\ Truthy(r.ProposedPrice)
  /\ ~JsNumber(r.ProposedPrice).nan

FailedTags ==
  {"APPLY FAILED (" \o note \o ")" :
     note \in {"500 Internal Server Error @ " \o b \o PUT_PATH : b \in BaseUrls}
              \cup {"Timeout", "no-endpoint"}}

\* C7: a failed push never stops the run: a run fails only on the sheets it cannot
\* use; pushPrices has called fetch for every eligible row it has passed; the
\* builder has recorded every record it has passed, pushed every eligible one, and
\* recorded each failed push with an "APPLY FAILED" status.
C7_FailedPushDoesNotStop ==
  /\ pc = "failed" => outcome \in ConfigErrors
  /\ entry = "pushPrices" =>
       \A i \in DOMAIN sheetRows :
          (i < rowI /\ Eligible(sheetRows[i])) =>
             (HasCall(i) /\ (baseUrl # "" => HasRequest(i)))
  /\ BuilderRun =>
       /\ RecordsSoFarRecorded
       /\ \A q \in Range(requests) :
            q.response # "200" =>
              (q.row \in DOMAIN out /\ Last(out[q.row].status) \in FailedTags)
       /\ \A i \in DOMAIN out :
            (doApply /\ out[i].product_id # "" /\ Numeric(out[i].proposedPrice)) =>
               /\ HasCall(i)
               /\ IF baseUrl = "" THEN Last(out[i].status) \in FailedTags
                  ELSE HasRequest(i)

\* C7 witness: a finished builder run in which a push failed and the push of a later
\* record was sent.
C7_Witness ==
  /\ BuilderRun /\ pc = "done"
  /\ \E i, j \in DOMAIN requests :
       /\ requests[i].response # "200"
       /\ requests[i].row < requests[j].row
       /\ Last(out[requests[i].row].status) \in FailedTags

\* A push of the run failed.
PushFailed ==
  \/ \E q \in Range(requests) : q.response # "200"
  \/ \E i \in DOMAIN out : Last(out[i].status) \in FailedTags
  \/ entry = "pushPrices" /\ baseUrl = "" /\ calls # <<>>

\* C8: a finished run of pushPrices or of an apply entry point reports failure if a
\* push of it failed, and success if none did.
C8_FailedPushReported ==
  (pc = "done" /\ (entry = "pushPrices" \/ (BuilderRun /\ doApply))) =>
     (outcome = "success" <=> ~PushFailed)

\* C9: within a run no row has two requests, whatever the responses are.
C9_AtMostOneRequestPerRow ==
  \A i, j \in DOMAIN requests : requests[i].row = requests[j].row => i = j

\* C9 witness: a finished run of pushPrices with a failed request followed by the
\* request of a later row.
C9_Witness ==
  /\ entry = "pushPrices" /\ pc = "done"
  /\ \E i, j \in DOMAIN requests :
       requests[i].response # "200" /\ requests[i].row < requests[j].row

\* C10: at every point of a builder run the Proposals sheet holds the row of each
\* record processed so far, in particular of each record whose price was pushed.
C10_LogHoldsProcessedRows ==
  (BuilderRun /\ pc # "start") =>
     /\ log = out
     /\ \A q \in Range(requests) : q.row \in DOMAIN log

OutcomeTags == {"APPLIED", "SKIPPED", "DRY-RUN", "APPLY FAILED"} \cup FailedTags

\* The outcome tag that the row of a record is to carry.
TagExpected(i) ==
  IF ~doApply THEN {"DRY-RUN"}
  ELSE IF HasCall(i) THEN {"APPLIED", "APPLY FAILED"} \cup FailedTags
  ELSE {"SKIPPED"}

\* C11: every row of the builder ends its status with exactly one outcome tag:
\* APPLIED or APPLY FAILED (...) when the push was invoked, SKIPPED in apply mode
\* when it was not, DRY-RUN for every record of a dry run, priced or not.
C11_OneOutcomeTag ==
  BuilderRun =>
    \A i \in DOMAIN out :
       /\ Last(out[i].status) \in TagExpected(i)
       /\ Cardinality({k \in DOMAIN out[i].status : out[i].status[k] \in OutcomeTags}) = 1

\* C12: a configuration error is fatal before any network activity: when a run
\* stops on a missing catalog column, on a missing Model column of a report or on a
\* Proposals sheet it cannot use, no request has been sent to the pricing API.
C12_ConfigErrorBeforeNetwork ==
  (pc = "failed" /\ outcome \in ConfigErrors) => requests = <<>>

\* A number without a fractional part (numbers are counted in halves).
IsInteger(h) == h % 2 = 0

\* C13: rounding happens at the proposal, not at the push: for numeric current
\* price, rank and delta the price computeNewPrice_ returns is an integer, so is the
\* price recorded in the row, and the price of the request equals the recorded one.
C13_RoundedAtProposal ==
  /\ (/\ PolicyReturned
      /\ Numeric(pin.current) /\ Numeric(pin.rank) /\ Numeric(pin.delta))
       => IsInteger(Val(pout.proposed))
  /\ BuilderRun =>
       /\ \A i \in DOMAIN out :
            out[i].proposedPrice # Str("") => IsInteger(out[i].proposedPrice.n)
       /\ \A q \in Range(requests) :
            q.row \in DOMAIN out => q.conditions[1].price = out[q.row].proposedPrice.n

\* C16: every price the builder sends in apply mode, for a record with a current
\* price of at least 0, is a non-negative integer.
C16_NonNegativePriceSent ==
  BuilderRun =>
    \A q \in Range(requests) :
       (q.row \in DOMAIN out /\ Val(out[q.row].currentPrice) >= 0) =>
          (q.conditions[1].price >= 0 /\ IsInteger(q.conditions[1].price))

\* C14: the changed-only export run twice in a row, with no change to the sheets
\* between the runs, exports no row the second time.
C14_SecondExportEmpty ==
  (entry = "exportCsvForReuselyChangedOnly" /\ pc = "done") => exported[2] = <<>>

\* The sequence of the sequential runner has ended: no invocation is under way and
\* none is scheduled.
SequenceEnded ==
  entry = "_startSequential_" /\ pc \in {"finished", "failed"} /\ triggers = 0

\* C15: the sequential runner processes every carrier of the initial queue exactly
\* once, in REPORT_TABS order, with the stored flag, and ends with an empty queue
\* and nothing scheduled, also when the processing of a carrier raises an error.
C15_SequenceProcessesEveryCarrier ==
  /\ SequenceEnded => (queue = <<>> /\ processed = CarriersWithTab(1))
  /\ entry = "_startSequential_" =>
       /\ triggers \in {0, 1}
       /\ pc # "start" => processed \o queue = CarriersWithTab(1)
       /\ pc \in {"catalog", "carrier", "record"} =>
            (doApply = applyFlag /\ carriersFilter = {Last(processed)})

====
